---- MODULE Spec2Model ----
(***************************************************************************)
(* Model of the ratsensor edge agent: the MQTT adapter (connection         *)
(* supervision thread, broker callbacks, publish, connect/disconnect), the *)
(* monitoring service's cycle loop and shutdown, and main()'s start-up and *)
(* finally block.                                                          *)
(*                                                                         *)
(* Threads: the main thread (mpc), the supervision threads started by      *)
(* connect() (sup), the broker client's network thread (the On* callback   *)
(* actions), the admin handler threads (hnd) and the signal handler.       *)
(*                                                                         *)
(* Time is the one quantity `elapsed` = time.monotonic() minus             *)
(* _last_connection_attempt_time; delays are whole seconds and the jitter  *)
(* random.uniform(0, 5) takes one of its two ends, 0 or MaxJitter.         *)
(***************************************************************************)
EXTENDS Integers, Sequences, FiniteSets, TLC

\* ---- program constants (AppConfig defaults, literals of mqtt.py) ----
InitialRetryDelay == 15
MaxRetryDelay == 300
RetryBackoffFactor == 2
MaxJitter == 5

\* ---- bounds of the model ----
MaxSup == 2          \* supervision threads ever started
BackoffAttempts == 6 \* connection attempts under SpecBackoff
AdapterAttempts == 2 \* connection attempts under SpecAdapter
SysAttempts == 1     \* connection attempts under Spec
DriverCalls == 3     \* API calls the driver of SpecAdapter makes
MaxCycles == 2       \* cycle iterations started
BatchSize == 2       \* db_save_interval_reads used by the model
MaxHandlers == 2     \* admin handler invocations
MaxMessages == 3     \* inbound messages delivered
AdminAttempts == 1   \* connection attempts under SpecAdmin
RebootAttempts == 2  \* connection attempts under SpecReboot
RecoverAttempts == 3 \* connection attempts under SpecRecover
RecoverCalls == 2    \* connect() and publish calls under SpecRecover
ScenarioAttempts == 2 \* connection attempts under SpecScenario
StorageCalls == 2    \* save calls under SpecStorage
MaxStamps == 2       \* distinct timestamps of the readings saved directly
MaxValues == 2       \* distinct measured values per timestamp
MaxBatch == 2        \* readings in a batch saved directly

VARIABLES
    \* MqttAdapter fields
    is_connected,     \* _is_connected
    retry_delay,      \* _current_retry_delay
    elapsed,          \* time.monotonic() - _last_connection_attempt_time
    client,           \* self.client: 0 is None, else the id of the mqtt.Client
    cl,               \* the mqtt.Client objects ever created: loop thread, socket, subscription
    nclients,         \* number of mqtt.Client objects created
    admin_handler,    \* _admin_handler is not None
    mqtt_thread,      \* _mqtt_thread: 0 is None, else a supervision thread id
    stop_event,       \* _stop_event.is_set()
    sup,              \* supervision threads: position, local temporaries, own attempt's client
    nthreads,         \* number of supervision threads started
    cfg,              \* AppConfig: listen_for_admin, mqtt_admin_topic_template set; the device id;
                      \* the surroundings of the run: the broker, sensor and storage faults
    \* SensorMonitoringService fields
    running,          \* _running
    buffer,           \* _sensor_data_buffer
    count,            \* _measurement_count
    storage_init,     \* SQLiteStorageAdapter._initialized
    \* main thread
    mpc,              \* position of the main thread
    sd_caller,        \* who called shutdown(): "run" or "main"
    cycles,           \* iterations of the cycle loop started
    \* budgets (set by Init)
    attempts_left,
    calls_left,
    \* history
    last_pub,         \* the _publish call of this iteration: connected at its check, transport called, rc
    connect_calls,    \* connect() calls so far: 0, 1, or 2 for two and more
    disc_called,      \* disconnect() has been called
    last_fail,        \* retry delay after the last failure, 0 if none since a success
    fresh_fails,      \* failed attempts since construction, while none was acknowledged
                      \* and every jitter drawn was 0; -1 afterwards
    buffered,         \* readings appended to the buffer so far
    saved,            \* readings passed to a save call that returned True
    last_save,        \* the save call of this iteration: "none", "ok" or "failed"
    flush_calls,      \* save_sensor_readings calls made by shutdown()
    shutdown_runs,    \* completed runs of shutdown()
    buf_at_exit,      \* buffer was non-empty when the cycle loop exited
    signalled,        \* a termination signal was delivered
    steps,            \* what the main thread has done so far, in order
    iter_pubs,        \* topics published by this iteration (publish returned True), in order
    save_log,         \* the save_sensor_readings calls so far: caller, batch and result
    table,            \* the rows of sensor_readings, in insertion order
    \* admin commands
    hnd,              \* invocations of _handle_admin_command: position, command, context
    msgs              \* inbound messages delivered to _on_message

adapterVars == <<is_connected, retry_delay, elapsed, client, cl, nclients,
                 admin_handler, mqtt_thread, stop_event, sup, nthreads, cfg>>
serviceVars == <<running, buffer, count, storage_init>>
mainVars == <<mpc, sd_caller, cycles>>
budgetVars == <<attempts_left, calls_left>>
failHist == <<last_fail, fresh_fails>>
saveHist == <<buffered, saved, flush_calls, save_log, table>>
iterHist == <<last_pub, last_save>>
runHist == <<shutdown_runs, buf_at_exit, signalled>>
callHist == <<connect_calls, disc_called>>
progHist == <<steps, iter_pubs>>
adminVars == <<hnd, msgs>>
vars == <<adapterVars, serviceVars, mainVars, budgetVars, iterHist, failHist,
          saveHist, runHist, callHist, progHist, adminVars>>

Threads == 1..MaxSup
Clients == 1..BackoffAttempts
Handlers == 1..MaxHandlers

Min(a, b) == IF a <= b THEN a ELSE b
Range(s) == {s[i] : i \in DOMAIN s}

\* self.admin_topic of MqttAdapter.__init__
admin_topic == cfg.listen /\ cfg.topic

\* the surroundings of a run.  A reachable broker accepts every connection,
\* acknowledges it within the time the adapter waits, and keeps it; an
\* unreachable one never acknowledges; without faults the sensor reads and
\* the storage work.  "any" and faults allowed is every behaviour.
BrokerUp == cfg.broker = "up"
BrokerDown == cfg.broker = "down"
NoFaults == ~cfg.faults

\* offline: what became of the offline status published on the client
NewClient == [loop |-> FALSE, conn |-> "new", sub |-> FALSE, offline |-> "none"]
NoThread == [pc |-> "none", tmp |-> 0]

\* no invocation: th is the thread object join() was called on, failed an
\* exception caught at service.py line 52, raised one that left the handler,
\* did the calls the handler has made on its collaborators, in order
NoHandler == [pc |-> "none", cmd |-> "none", on |-> "none", th |-> 0,
              reboots |-> 0, failed |-> FALSE, raised |-> FALSE, did |-> <<>>]

\* the client's network thread is not inside a callback that has yet to return
NetIdle == \A h \in Handlers : hnd[h].on = "network" => hnd[h].pc \in {"none", "done"}

Alive(t) == sup[t].pc \notin {"none", "dead"}
LiveClients == {c \in Clients : cl[c].conn \in {"open", "acked"}}
AliveThreads == {t \in Threads : Alive(t)}

\* ---------------------------------------------------------------------
\* MqttAdapter: the supervision thread (_connection_loop)
\* ---------------------------------------------------------------------

\* random.uniform(0, 5): the two ends of the interval
Jitter == {0, MaxJitter}

\* faulty variant: the factor is applied to the initial delay
BackoffFromInitial(d) == Min(InitialRetryDelay * RetryBackoffFactor, MaxRetryDelay)

\* min(_current_retry_delay * mqtt_retry_backoff_factor, mqtt_max_retry_delay)
Backoff(d) == Min(d * RetryBackoffFactor, MaxRetryDelay)

\* what the supervision thread and the callbacks never touch
NotAdapter == UNCHANGED <<serviceVars, mainVars, calls_left, iterHist, saveHist,
                          runHist, callHist, progHist, adminVars>>

SetPc(t, p) == [sup EXCEPT ![t].pc = p]

\* while not self._stop_event.is_set(): the stop event is set, the loop is left
SupStop(t) ==
    /\ sup[t].pc = "loop"
    /\ stop_event
    /\ sup' = SetPc(t, "final")
    /\ UNCHANGED <<is_connected, retry_delay, elapsed, client, cl, nclients,
                   admin_handler, mqtt_thread, stop_event, nthreads, cfg,
                   attempts_left, failHist>>
    /\ NotAdapter

\* faulty variant: only the first attempt is ever made
SupTickFirstOnly(t) ==
    /\ sup[t].pc = "loop"
    /\ ~stop_event
    /\ ~is_connected
    /\ client = 0
    /\ elapsed >= retry_delay
    /\ attempts_left > 0
    /\ elapsed' = 0
    /\ attempts_left' = attempts_left - 1
    /\ sup' = SetPc(t, "attempt")
    /\ UNCHANGED <<is_connected, retry_delay, client, cl, nclients, admin_handler,
                   mqtt_thread, stop_event, nthreads, cfg, failHist>>
    /\ NotAdapter

\* faulty variant: the pass does not look at the stop event
SupTickIgnoresStop(t) ==
    /\ sup[t].pc = "loop"
    /\ ~is_connected
    /\ elapsed >= retry_delay
    /\ attempts_left > 0
    /\ elapsed' = 0
    /\ attempts_left' = attempts_left - 1
    /\ sup' = SetPc(t, "attempt")
    /\ UNCHANGED <<is_connected, retry_delay, client, cl, nclients, admin_handler,
                   mqtt_thread, stop_event, nthreads, cfg, failHist>>
    /\ NotAdapter

\* faulty variant: the attempt starts without waiting for the retry delay
SupTickEager(t) ==
    /\ sup[t].pc = "loop"
    /\ ~stop_event
    /\ ~is_connected
    /\ attempts_left > 0
    /\ elapsed' = 0
    /\ attempts_left' = attempts_left - 1
    /\ sup' = SetPc(t, "attempt")
    /\ UNCHANGED <<is_connected, retry_delay, client, cl, nclients, admin_handler,
                   mqtt_thread, stop_event, nthreads, cfg, failHist>>
    /\ NotAdapter

\* lines 113-120: one pass of the loop while not connected; the attempt starts
\* when the retry delay has elapsed.  While Connected the pass is time.sleep(1)
\* and changes nothing.
SupTick(t) ==
    /\ sup[t].pc = "loop"
    /\ ~stop_event
    /\ ~is_connected
    /\ elapsed >= retry_delay
    /\ attempts_left > 0
    /\ elapsed' = 0
    /\ attempts_left' = attempts_left - 1
    /\ sup' = SetPc(t, "attempt")
    /\ UNCHANGED <<is_connected, retry_delay, client, cl, nclients, admin_handler,
                   mqtt_thread, stop_event, nthreads, cfg, failHist>>
    /\ NotAdapter

\* the old client after loop_stop() and disconnect()
Stopped(c) == [c EXCEPT !.loop = FALSE, !.conn = "closed"]

\* lines 121-133: clean up the old client, create the new one, connect, loop_start;
\* connect() either opens the socket or raises (ConnectionRefusedError, OSError, other)
SupAttempt(t) ==
    /\ sup[t].pc = "attempt"
    /\ nclients < BackoffAttempts
    /\ LET new == nclients + 1
           old == IF client = 0 THEN cl ELSE [cl EXCEPT ![client] = Stopped(@)]
       IN /\ nclients' = new
          /\ client' = new
          /\ \/ /\ cl' = [old EXCEPT ![new] = [loop |-> TRUE, conn |-> "open", sub |-> FALSE,
                                             offline |-> "none"]]
                /\ sup' = SetPc(t, "wait")
             \/ /\ ~BrokerUp
                /\ cl' = [old EXCEPT ![new] = NewClient]
                /\ sup' = SetPc(t, "except")
    /\ UNCHANGED <<is_connected, retry_delay, elapsed, admin_handler, mqtt_thread,
                   stop_event, nthreads, cfg, attempts_left, failHist>>
    /\ NotAdapter

\* lines 136-140: the wait for on_connect ended (acknowledged or timed out);
\* if not self.is_connected(): back off.  A reachable broker acknowledges an
\* open connection before the wait times out.
SupCheck(t) ==
    /\ sup[t].pc = "wait"
    /\ (BrokerUp /\ client # 0 /\ cl[client].conn = "open") => is_connected
    /\ sup' = SetPc(t, IF is_connected THEN "loop" ELSE "bo_r1")
    /\ UNCHANGED <<is_connected, retry_delay, elapsed, client, cl, nclients,
                   admin_handler, mqtt_thread, stop_event, nthreads, cfg,
                   attempts_left, failHist>>
    /\ NotAdapter

\* lines 155-157, 167-169: except ...: self._is_connected = False
SupExcept(t) ==
    /\ sup[t].pc = "except"
    /\ is_connected' = FALSE
    /\ sup' = SetPc(t, "bo_r1")
    /\ UNCHANGED <<retry_delay, elapsed, client, cl, nclients, admin_handler,
                   mqtt_thread, stop_event, nthreads, cfg, attempts_left, failHist>>
    /\ NotAdapter

\* lines 143-146 (159-162, 171-174): the right-hand side is read ...
SupBackoffRead(t) ==
    /\ sup[t].pc = "bo_r1"
    /\ sup' = [sup EXCEPT ![t].pc = "bo_w1", ![t].tmp = Backoff(retry_delay)]
    /\ UNCHANGED <<is_connected, retry_delay, elapsed, client, cl, nclients,
                   admin_handler, mqtt_thread, stop_event, nthreads, cfg,
                   attempts_left, failHist>>
    /\ NotAdapter

\* ... and stored, without the lock
SupBackoffWrite(t) ==
    /\ sup[t].pc = "bo_w1"
    /\ retry_delay' = sup[t].tmp
    /\ sup' = [sup EXCEPT ![t].pc = "bo_r2", ![t].tmp = 0]
    /\ UNCHANGED <<is_connected, elapsed, client, cl, nclients, admin_handler,
                   mqtt_thread, stop_event, nthreads, cfg, attempts_left, failHist>>
    /\ NotAdapter

\* line 148 (163, 175): self._current_retry_delay += random.uniform(0, 5), the read
SupJitterRead(t) ==
    /\ sup[t].pc = "bo_r2"
    /\ \E j \in Jitter :
           sup' = [sup EXCEPT ![t].pc = "bo_w2", ![t].tmp = retry_delay + j]
    /\ UNCHANGED <<is_connected, retry_delay, elapsed, client, cl, nclients,
                   admin_handler, mqtt_thread, stop_event, nthreads, cfg,
                   attempts_left, failHist>>
    /\ NotAdapter

\* ... and the store: the failed attempt's delay is now in force
SupJitterWrite(t) ==
    /\ sup[t].pc = "bo_w2"
    /\ retry_delay' = sup[t].tmp
    /\ last_fail' = sup[t].tmp
    /\ fresh_fails' = IF fresh_fails >= 0 /\ sup[t].tmp = retry_delay
                      THEN fresh_fails + 1 ELSE -1
    /\ sup' = [sup EXCEPT ![t].pc = "loopstop", ![t].tmp = 0]
    /\ UNCHANGED <<is_connected, elapsed, client, cl, nclients, admin_handler,
                   mqtt_thread, stop_event, nthreads, cfg, attempts_left>>
    /\ NotAdapter

\* lines 150-152 (164-166, 176-178): self.client.loop_stop()
SupLoopStop(t) ==
    /\ sup[t].pc = "loopstop"
    /\ cl' = IF client = 0 THEN cl ELSE [cl EXCEPT ![client].loop = FALSE]
    /\ sup' = SetPc(t, "loop")
    /\ UNCHANGED <<is_connected, retry_delay, elapsed, client, nclients,
                   admin_handler, mqtt_thread, stop_event, nthreads, cfg,
                   attempts_left, failHist>>
    /\ NotAdapter

\* faulty variant: the loop is left without the offline status
SupFinalWithoutStatus(t) ==
    /\ sup[t].pc = "final"
    /\ sup' = SetPc(t, IF client = 0 THEN "final_flag" ELSE "final_stop")
    /\ UNCHANGED <<is_connected, retry_delay, elapsed, client, cl, nclients,
                   admin_handler, mqtt_thread, stop_event, nthreads, cfg,
                   attempts_left, failHist>>
    /\ NotAdapter

\* publish() of the retained {"status": "offline", "reason": "shutdown"} on
\* status/{device_id}, qos 1: it goes out on an acknowledged connection
StatusPublished(c) == IF c.conn = "acked" THEN "sent" ELSE "unsent"

\* lines 185-191: the loop was left; if self.client: publish the offline
\* status and sleep 0.5 s
SupFinal(t) ==
    /\ sup[t].pc = "final"
    /\ cl' = IF client = 0 THEN cl
             ELSE [cl EXCEPT ![client].offline = StatusPublished(cl[client])]
    /\ sup' = SetPc(t, IF client = 0 THEN "final_flag" ELSE "final_stop")
    /\ UNCHANGED <<is_connected, retry_delay, elapsed, client, nclients,
                   admin_handler, mqtt_thread, stop_event, nthreads, cfg,
                   attempts_left, failHist>>
    /\ NotAdapter

\* lines 192-193: self.client.loop_stop(); self.client.disconnect()
SupFinalStop(t) ==
    /\ sup[t].pc = "final_stop"
    /\ cl' = IF client = 0 THEN cl ELSE [cl EXCEPT ![client] = Stopped(@)]
    /\ sup' = SetPc(t, "final_flag")
    /\ UNCHANGED <<is_connected, retry_delay, elapsed, client, nclients,
                   admin_handler, mqtt_thread, stop_event, nthreads, cfg,
                   attempts_left, failHist>>
    /\ NotAdapter

\* faulty variant: the thread ends without clearing the flag
SupFinalKeepsFlag(t) ==
    /\ sup[t].pc = "final_flag"
    /\ sup' = SetPc(t, "dead")
    /\ UNCHANGED <<is_connected, retry_delay, elapsed, client, cl, nclients,
                   admin_handler, mqtt_thread, stop_event, nthreads, cfg,
                   attempts_left, failHist>>
    /\ NotAdapter

\* lines 197-198: with self._lock: self._is_connected = False; the thread ends
SupFinalFlag(t) ==
    /\ sup[t].pc = "final_flag"
    /\ is_connected' = FALSE
    /\ sup' = SetPc(t, "dead")
    /\ UNCHANGED <<retry_delay, elapsed, client, cl, nclients, admin_handler,
                   mqtt_thread, stop_event, nthreads, cfg, attempts_left, failHist>>
    /\ NotAdapter

\* time passes up to the retry deadline
TimePasses ==
    /\ elapsed < retry_delay
    /\ elapsed' = retry_delay
    /\ UNCHANGED <<is_connected, retry_delay, client, cl, nclients, admin_handler,
                   mqtt_thread, stop_event, sup, nthreads, cfg, attempts_left, failHist>>
    /\ NotAdapter

\* ---------------------------------------------------------------------
\* MqttAdapter: callbacks on the client's network thread
\* ---------------------------------------------------------------------

\* faulty variant: _on_connect that does not subscribe
OnConnectNoSubscribe(c) ==
    /\ cl[c].loop
    /\ cl[c].conn = "open"
    /\ is_connected' = TRUE
    /\ retry_delay' = InitialRetryDelay
    /\ cl' = [cl EXCEPT ![c].conn = "acked"]
    /\ last_fail' = 0
    /\ fresh_fails' = -1
    /\ UNCHANGED <<elapsed, client, nclients, admin_handler, mqtt_thread,
                   stop_event, sup, nthreads, cfg, attempts_left>>
    /\ NotAdapter

\* _on_connect with rc == 0
OnConnect(c) ==
    /\ ~BrokerDown
    /\ NetIdle
    /\ cl[c].loop
    /\ cl[c].conn = "open"
    /\ is_connected' = TRUE
    /\ retry_delay' = InitialRetryDelay
    /\ cl' = [cl EXCEPT ![c].conn = "acked",
                        ![c].sub = (admin_topic /\ admin_handler)]
    /\ last_fail' = 0
    /\ fresh_fails' = -1
    /\ UNCHANGED <<elapsed, client, nclients, admin_handler, mqtt_thread,
                   stop_event, sup, nthreads, cfg, attempts_left>>
    /\ NotAdapter

\* _on_connect with rc != 0: the broker refused and closes
OnConnectRefused(c) ==
    /\ ~BrokerUp /\ ~BrokerDown
    /\ NetIdle
    /\ cl[c].loop
    /\ cl[c].conn = "open"
    /\ is_connected' = FALSE
    /\ cl' = [cl EXCEPT ![c].conn = "closed"]
    /\ UNCHANGED <<retry_delay, elapsed, client, nclients, admin_handler,
                   mqtt_thread, stop_event, sup, nthreads, cfg, attempts_left,
                   failHist>>
    /\ NotAdapter

\* _on_disconnect: the connection was lost
OnDisconnect(c) ==
    /\ ~BrokerUp
    /\ NetIdle
    /\ cl[c].loop
    /\ cl[c].conn \in {"open", "acked"}
    /\ is_connected' = FALSE
    /\ cl' = [cl EXCEPT ![c].conn = "closed", ![c].sub = FALSE]
    /\ UNCHANGED <<retry_delay, elapsed, client, nclients, admin_handler,
                   mqtt_thread, stop_event, sup, nthreads, cfg, attempts_left,
                   failHist>>
    /\ NotAdapter

\* ---------------------------------------------------------------------
\* MqttAdapter: the DataPublisher / AdminCommandListener interface, called
\* on the main thread.  `here` is the caller's position, the other
\* parameters are the positions the call continues at.
\* ---------------------------------------------------------------------

\* what no adapter call touches
NotCaller == UNCHANGED <<serviceVars, sd_caller, cycles, attempts_left, failHist,
                         saveHist, runHist, last_save, adminVars>>

\* faulty variant: connect() without the check for a running thread
ThreadNeverRunning == FALSE

\* if self._mqtt_thread and self._mqtt_thread.is_alive(): return True
ThreadRunning == mqtt_thread # 0 /\ Alive(mqtt_thread)

\* connect()
ConnectCall(here, next) ==
    /\ mpc = here
    /\ connect_calls' = Min(connect_calls + 1, 2)
    /\ IF ThreadRunning
       THEN UNCHANGED <<stop_event, mqtt_thread, sup, nthreads>>
       ELSE /\ nthreads < MaxSup
            /\ stop_event' = FALSE
            /\ nthreads' = nthreads + 1
            /\ mqtt_thread' = nthreads + 1
            /\ sup' = [sup EXCEPT ![nthreads + 1] = [pc |-> "loop", tmp |-> 0]]
    /\ mpc' = next
    /\ UNCHANGED <<is_connected, retry_delay, elapsed, client, cl, nclients,
                   admin_handler, cfg, last_pub, disc_called>>
    /\ NotCaller

\* disconnect(), line 221: self._stop_event.set()
DisconnectSet(here, next) ==
    /\ mpc = here
    /\ stop_event' = TRUE
    /\ disc_called' = TRUE
    /\ mpc' = next
    /\ UNCHANGED <<is_connected, retry_delay, elapsed, client, cl, nclients,
                   admin_handler, mqtt_thread, sup, nthreads, cfg, last_pub,
                   connect_calls>>
    /\ NotCaller

\* positions of the supervision thread that can outlast join(timeout=10):
\* the blocking connect() and the wait for the acknowledgment
SlowPcs == {"attempt", "wait"}

\* join(timeout=10) on thread t can expire: t is inside the blocking connect,
\* or in the wait of lines 136-138, which ends within 0.1 s once connected
JoinTimesOut(t) == sup[t].pc \in SlowPcs /\ (sup[t].pc = "wait" => ~is_connected)

\* disconnect(), lines 222-226: join(timeout=10) returns when the thread has ended
\* or the timeout expired; then self._mqtt_thread = None
DisconnectJoin(here, next) ==
    /\ mpc = here
    /\ \/ ~ThreadRunning
       \/ ThreadRunning /\ JoinTimesOut(mqtt_thread)
    /\ mqtt_thread' = 0
    /\ mpc' = next
    /\ UNCHANGED <<is_connected, retry_delay, elapsed, client, cl, nclients,
                   admin_handler, stop_event, sup, nthreads, cfg, last_pub, callHist>>
    /\ NotCaller

\* faulty variant: only the missing client is checked
NotReadyClientOnly == client = 0

\* _publish, line 240: not self.is_connected() or not self.client
NotReady == ~is_connected \/ client = 0

\* _publish, lines 240-242: if not ready: return False
PublishCheck(here, send, next, topic) ==
    /\ mpc = here
    /\ IF NotReady
       THEN /\ last_pub' = [topic |-> topic, seen |-> is_connected, sent |-> FALSE,
                            rc |-> "not_connected", ret |-> FALSE,
                            raised |-> FALSE]
            /\ mpc' = next
       ELSE /\ last_pub' = [topic |-> topic, seen |-> is_connected, sent |-> FALSE,
                            rc |-> "pending", ret |-> FALSE,
                            raised |-> FALSE]
            /\ mpc' = send
    /\ UNCHANGED <<adapterVars, callHist>>
    /\ NotCaller

\* what self.client.publish() can do: msg_info.rc, or an exception
PublishOutcomes(c) ==
    IF cl[c].conn = "acked" THEN (IF BrokerUp THEN {"ok"} ELSE {"ok", "other_err", "raise"})
                            ELSE {"no_conn", "raise"}

\* faulty variant: every transport outcome marks the adapter disconnected
MarksDisconnectedAlways(rc) == TRUE

\* faulty variant: only an exception marks the adapter disconnected
MarksDisconnectedOnRaise(rc) == rc = "raise"

\* lines 255-257 and 259-263: which outcomes mark the adapter disconnected
MarksDisconnected(rc) == rc \in {"no_conn", "raise"}

\* faulty variant: _publish without its except clause
PropagatesUncaught(rc) == rc = "raise"

\* lines 259-264, except Exception: ... return False: no outcome of the
\* transport call leaves _publish as an exception
Propagates(rc) == FALSE

\* _publish, lines 244-264: the transport call and what follows from its result
PublishSend(here, next) ==
    /\ mpc = here
    /\ \E rc \in PublishOutcomes(client) :
          /\ last_pub' = [last_pub EXCEPT !.sent = TRUE, !.rc = rc, !.ret = (rc = "ok"),
                                          !.raised = Propagates(rc)]
          /\ is_connected' = IF MarksDisconnected(rc) THEN FALSE ELSE is_connected
    /\ mpc' = next
    /\ UNCHANGED <<retry_delay, elapsed, client, cl, nclients, admin_handler,
                   mqtt_thread, stop_event, sup, nthreads, cfg, callHist>>
    /\ NotCaller

\* faulty variant: start_listening without the check of the configuration
ListenNeverDisabled == FALSE

\* line 270: not self.config.listen_for_admin or not self.admin_topic
ListenDisabled == ~cfg.listen \/ ~admin_topic

\* start_listening, lines 270-275
StartListening(here, mid, next) ==
    /\ mpc = here
    /\ IF ListenDisabled
       THEN /\ mpc' = next
            /\ UNCHANGED admin_handler
       ELSE /\ admin_handler' = TRUE
            /\ mpc' = mid
    /\ UNCHANGED <<is_connected, retry_delay, elapsed, client, cl, nclients,
                   mqtt_thread, stop_event, sup, nthreads, cfg, last_pub, callHist>>
    /\ NotCaller

\* faulty variant: start_listening leaves every subscription to _on_connect
StartSubscribeNever(here, next) ==
    /\ mpc = here
    /\ mpc' = next
    /\ UNCHANGED <<is_connected, retry_delay, elapsed, client, cl, nclients,
                   admin_handler, mqtt_thread, stop_event, sup, nthreads, cfg,
                   last_pub, callHist>>
    /\ NotCaller

\* start_listening, lines 278-290: subscribe now if already connected
StartSubscribe(here, next) ==
    /\ mpc = here
    /\ cl' = IF is_connected /\ client # 0
             THEN [cl EXCEPT ![client].sub = TRUE] ELSE cl
    /\ mpc' = next
    /\ UNCHANGED <<is_connected, retry_delay, elapsed, client, nclients,
                   admin_handler, mqtt_thread, stop_event, sup, nthreads, cfg,
                   last_pub, callHist>>
    /\ NotCaller

\* stop_listening
StopListening(here, next) ==
    /\ mpc = here
    /\ cl' = IF admin_topic /\ client # 0 /\ is_connected
             THEN [cl EXCEPT ![client].sub = FALSE] ELSE cl
    /\ admin_handler' = FALSE
    /\ mpc' = next
    /\ UNCHANGED <<is_connected, retry_delay, elapsed, client, nclients,
                   mqtt_thread, stop_event, sup, nthreads, cfg, last_pub, callHist>>
    /\ NotCaller

\* ---------------------------------------------------------------------
\* SQLiteStorageAdapter
\* ---------------------------------------------------------------------

\* readings handed to the storage directly: timestamp and measured value
StReadings == [ts : 1..MaxStamps, val : 1..MaxValues]
StBatches == UNION {[1..n -> StReadings] : n \in 0..MaxBatch}

\* faulty variant: save_sensor_readings does not look at _initialized
SaveResultsUninitialized(batch) == IF batch = <<>> THEN {TRUE} ELSE {TRUE, FALSE}

\* save_sensor_readings: False when not initialized, True for an empty batch,
\* otherwise True (committed) or False (locked, sqlite error)
SaveResults(batch) ==
    IF ~storage_init THEN {FALSE}
    ELSE IF batch = <<>> \/ NoFaults THEN {TRUE}
    ELSE {TRUE, FALSE}

\* the timestamps that have a row
Stored(tab) == {tab[i].ts : i \in DOMAIN tab}

\* faulty variant: a table without the primary key, every row is inserted
RECURSIVE InsertPlain(_, _)
InsertPlain(tab, rows) ==
    IF rows = <<>> THEN tab
    ELSE InsertPlain(Append(tab, Head(rows)), Tail(rows))

\* lines 68-72: executemany of INSERT OR IGNORE over the rows, timestamp being
\* the primary key (line 33): a row whose timestamp has a row is skipped
RECURSIVE InsertOrIgnore(_, _)
InsertOrIgnore(tab, rows) ==
    IF rows = <<>> THEN tab
    ELSE InsertOrIgnore(IF Head(rows).ts \in Stored(tab) THEN tab
                                                         ELSE Append(tab, Head(rows)),
                        Tail(rows))

\* the table after a save call: committed (line 73), or as it was
TableAfterSave(tab, rows, ok) == IF ok THEN InsertOrIgnore(tab, rows) ELSE tab

\* lines 60-63: the tuples of a batch of the service, whose reading r has
\* the timestamp of cycle r
Rows(batch) == [i \in DOMAIN batch |-> [ts |-> batch[i], val |-> batch[i]]]

\* initialize() of the storage alone, lines 16-51
StInitialize ==
    /\ mpc = "st"
    /\ ~storage_init
    /\ \E ok \in (IF NoFaults THEN {TRUE} ELSE BOOLEAN) : storage_init' = ok
    /\ UNCHANGED <<adapterVars, running, buffer, count, mainVars, budgetVars, iterHist,
                   failHist, saveHist, runHist, callHist, progHist, adminVars>>

\* save_sensor_readings called with any batch of up to MaxBatch readings
\* out of StReadings
StSave ==
    /\ mpc = "st"
    /\ calls_left > 0
    /\ calls_left' = calls_left - 1
    /\ \E batch \in StBatches :
          \E ok \in SaveResults(batch) :
              /\ table' = TableAfterSave(table, batch, ok)
              /\ save_log' = Append(save_log, [by |-> "direct", batch |-> batch, ok |-> ok])
              /\ last_save' = IF ok THEN "ok" ELSE "failed"
    /\ UNCHANGED <<adapterVars, serviceVars, mainVars, attempts_left, last_pub, failHist,
                   buffered, saved, flush_calls, runHist, callHist, progHist, adminVars>>

\* ---------------------------------------------------------------------
\* SensorMonitoringService.run and shutdown, on the main thread
\* ---------------------------------------------------------------------

NotService == UNCHANGED <<adapterVars, budgetVars, failHist, callHist, adminVars>>

\* no _publish or save call has been made in this iteration
NoPub == [topic |-> "none", seen |-> FALSE, sent |-> FALSE, rc |-> "none", ret |-> FALSE,
          raised |-> FALSE]

\* faulty variant: only an empty device id is rejected
RejectsEmptyOnly(id) == id = ""

\* if not device_id or device_id.startswith("temp-")
Rejects(id) == id = "" \/ id = "temp-uuid"

\* initialize(): the device id (lines 62-65), the sensor reader (68), the
\* storage (73, a failure is only logged); True, or False when the device id
\* is rejected or something raised (lines 88-90)
SvcInitialize ==
    /\ mpc = "run_init"
    /\ IF Rejects(cfg.id)
       THEN /\ UNCHANGED storage_init
            /\ steps' = Append(steps, "identity_rejected")
            /\ mpc' = "finally"
       ELSE \/ /\ \E ok \in (IF NoFaults THEN {TRUE} ELSE BOOLEAN) : storage_init' = ok
               /\ steps' = steps \o <<"sensor_init", "storage_init">>
               /\ mpc' = "run_set"
            \/ /\ ~NoFaults
               /\ UNCHANGED <<storage_init, steps>>
               /\ mpc' = "finally"
    /\ UNCHANGED <<running, buffer, count, sd_caller, cycles, saveHist, runHist, iterHist,
                   iter_pubs>>
    /\ NotService

\* self._running = True
SvcSetRunning ==
    /\ mpc = "run_set"
    /\ running' = TRUE
    /\ mpc' = "loop_test"
    /\ UNCHANGED <<buffer, count, storage_init, sd_caller, cycles, saveHist, runHist,
                   iterHist, progHist>>
    /\ NotService

\* while self._running: ... else self.shutdown()
SvcLoopTest ==
    /\ mpc = "loop_test"
    /\ \/ /\ running
          /\ cycles < MaxCycles
          /\ cycles' = cycles + 1
          /\ mpc' = "read"
          /\ steps' = Append(steps, "cycle")
          /\ UNCHANGED <<sd_caller, buf_at_exit>>
       \/ /\ ~running
          /\ sd_caller' = "run"
          /\ buf_at_exit' = (buffer # <<>>)
          /\ mpc' = "sd_flush"
          /\ UNCHANGED <<cycles, steps>>
    /\ last_pub' = NoPub
    /\ last_save' = "none"
    /\ iter_pubs' = <<>>
    /\ UNCHANGED <<serviceVars, saveHist, shutdown_runs, signalled>>
    /\ NotService

\* the buffer and counter after step 4
Appended(buf, r) == Append(buf, r)

\* faulty variant: an exception of a read leaves run()
SvcReadUncaught ==
    /\ mpc = "read"
    /\ \/ /\ buffer' = Appended(buffer, cycles)
          /\ count' = count + 1
          /\ buffered' = buffered \cup {cycles}
          /\ mpc' = "save"
       \/ /\ UNCHANGED <<buffer, count, buffered>>
          /\ mpc' = "finally"
    /\ UNCHANGED <<running, storage_init, sd_caller, cycles, saved, flush_calls, save_log, table,
                   runHist, iterHist, progHist>>
    /\ NotService

\* steps 2-4: read the sensors and the system info, append the reading;
\* either read may raise: the loop's except Exception (line 160) catches it
SvcRead ==
    /\ mpc = "read"
    /\ \/ /\ buffer' = Appended(buffer, cycles)
          /\ count' = count + 1
          /\ buffered' = buffered \cup {cycles}
          /\ mpc' = "save"
       \/ /\ ~NoFaults
          /\ UNCHANGED <<buffer, count, buffered>>
          /\ mpc' = "cooldown"
    /\ UNCHANGED <<running, storage_init, sd_caller, cycles, saved, flush_calls, save_log, table,
                   runHist, iterHist, progHist>>
    /\ NotService

\* lines 160-163: the exception is logged, time.sleep(10), back to the loop test
SvcCooldown ==
    /\ mpc = "cooldown"
    /\ mpc' = "loop_test"
    /\ UNCHANGED <<serviceVars, sd_caller, cycles, saveHist, runHist, iterHist,
                   progHist>>
    /\ NotService

\* faulty variant: the buffer is cleared whatever the save call returned
BufferDroppedAfterSave(buf, ok) == <<>>

\* the buffer after a save call of the cycle returned ok
BufferAfterSave(buf, ok) == IF ok THEN <<>> ELSE buf

\* faulty variant: the counter is reset whatever the save call returned
CountResetAfterSave(n, ok) == 0

\* faulty variant: the counter is never reset
CountKeptAfterSave(n, ok) == n

\* the counter after a save call of the cycle returned ok
CountAfterSave(n, ok) == IF ok THEN 0 ELSE n

\* faulty variant: the save comes one reading late
SaveDueLate(n) == n > BatchSize

\* line 127: self._measurement_count >= self.config.db_save_interval_reads
SaveDue(n) == n >= BatchSize

\* step 5: if the save is due: save_sensor_readings(self._sensor_data_buffer)
SvcSave ==
    /\ mpc = "save"
    /\ IF SaveDue(count)
       THEN \E ok \in SaveResults(buffer) :
               /\ last_save' = IF ok THEN "ok" ELSE "failed"
               /\ saved' = IF ok THEN saved \cup Range(buffer) ELSE saved
               /\ save_log' = Append(save_log, [by |-> "cycle", batch |-> buffer, ok |-> ok])
               /\ table' = TableAfterSave(table, Rows(buffer), ok)
               /\ buffer' = BufferAfterSave(buffer, ok)
               /\ count' = CountAfterSave(count, ok)
       ELSE UNCHANGED <<last_save, saved, save_log, table, buffer, count>>
    /\ mpc' = "pub_gate"
    /\ UNCHANGED <<running, storage_init, sd_caller, cycles, buffered, flush_calls,
                   runHist, last_pub, progHist>>
    /\ NotService

\* step 6: if self.publisher.is_connected(): ... else skip
SvcPubGate ==
    /\ mpc = "pub_gate"
    /\ mpc' = IF is_connected THEN "pubS_check" ELSE "loop_test"
    /\ UNCHANGED <<serviceVars, sd_caller, cycles, saveHist, runHist, iterHist,
                   progHist>>
    /\ NotService

SvcPubSensorCheck ==
    /\ PublishCheck("pubS_check", "pubS_send", "pubI_check", "sensor")
    /\ UNCHANGED <<calls_left, progHist>>

SvcPubSensorSend ==
    /\ PublishSend("pubS_send", "pubI_check")
    /\ iter_pubs' = IF last_pub'.ret THEN Append(iter_pubs, last_pub.topic) ELSE iter_pubs
    /\ UNCHANGED <<calls_left, steps>>

\* after the publishes: step 7, the sleep, and back to the loop test
SvcPubInfoCheck ==
    /\ PublishCheck("pubI_check", "pubI_send", "loop_test", "info")
    /\ UNCHANGED <<calls_left, progHist>>

SvcPubInfoSend ==
    /\ PublishSend("pubI_send", "loop_test")
    /\ iter_pubs' = IF last_pub'.ret THEN Append(iter_pubs, last_pub.topic) ELSE iter_pubs
    /\ UNCHANGED <<calls_left, steps>>

\* faulty variant: shutdown() does not save what is left in the buffer
SdFlushSkipsSave ==
    /\ mpc = "sd_flush"
    /\ running' = FALSE
    /\ steps' = Append(steps, "shutdown")
    /\ mpc' = "sd_disc"
    /\ UNCHANGED <<buffer, count, storage_init, sd_caller, cycles, saveHist, runHist,
                   iterHist, iter_pubs>>
    /\ NotService

\* faulty variant: the sensor source is released at the top of shutdown()
SdFlushReleasesFirst ==
    /\ mpc = "sd_flush"
    /\ running' = FALSE
    /\ IF buffer # <<>>
       THEN \E ok \in SaveResults(buffer) :
               /\ flush_calls' = flush_calls + 1
               /\ saved' = IF ok THEN saved \cup Range(buffer) ELSE saved
               /\ save_log' = Append(save_log, [by |-> "shutdown", batch |-> buffer, ok |-> ok])
               /\ table' = TableAfterSave(table, Rows(buffer), ok)
               /\ steps' = steps \o <<"shutdown", "release", "flush">>
       ELSE /\ UNCHANGED <<flush_calls, saved, save_log, table>>
            /\ steps' = steps \o <<"shutdown", "release">>
    /\ mpc' = "sd_disc"
    /\ UNCHANGED <<buffer, count, storage_init, sd_caller, cycles, buffered, runHist,
                   iterHist, iter_pubs>>
    /\ NotService

\* shutdown(), lines 168-175: self._running = False; save what is left,
\* the result is not looked at and the buffer is kept
SdFlush ==
    /\ mpc = "sd_flush"
    /\ running' = FALSE
    /\ IF buffer # <<>>
       THEN \E ok \in SaveResults(buffer) :
               /\ flush_calls' = flush_calls + 1
               /\ saved' = IF ok THEN saved \cup Range(buffer) ELSE saved
               /\ save_log' = Append(save_log, [by |-> "shutdown", batch |-> buffer, ok |-> ok])
               /\ table' = TableAfterSave(table, Rows(buffer), ok)
               /\ steps' = steps \o <<"shutdown", "flush">>
       ELSE /\ UNCHANGED <<flush_calls, saved, save_log, table>>
            /\ steps' = Append(steps, "shutdown")
    /\ mpc' = "sd_disc"
    /\ UNCHANGED <<buffer, count, storage_init, sd_caller, cycles, buffered, runHist,
                   iterHist, iter_pubs>>
    /\ NotService

\* shutdown(), lines 178-181: self.publisher.disconnect()
SdDisconnect ==
    /\ DisconnectSet("sd_disc", "sd_join")
    /\ steps' = Append(steps, "disconnect")
    /\ UNCHANGED <<calls_left, iter_pubs>>

SdJoin ==
    /\ DisconnectJoin("sd_join", "sd_unreg")
    /\ UNCHANGED <<calls_left, progHist>>

\* shutdown(), lines 184-188: if self.admin_listener: stop_listening()
SdStopListening ==
    /\ IF cfg.listen
       THEN StopListening("sd_unreg", "sd_cleanup")
       ELSE /\ mpc = "sd_unreg"
            /\ mpc' = "sd_cleanup"
            /\ UNCHANGED <<adapterVars, last_pub, callHist>>
            /\ NotCaller
    /\ steps' = IF cfg.listen THEN Append(steps, "unregister") ELSE steps
    /\ UNCHANGED <<calls_left, iter_pubs>>

\* shutdown(), lines 191-196: sensor_reader.cleanup(); return to the caller
SdCleanup ==
    /\ mpc = "sd_cleanup"
    /\ shutdown_runs' = shutdown_runs + 1
    /\ mpc' = IF sd_caller = "run" THEN "finally" ELSE "exit"
    /\ steps' = Append(steps, "release")
    /\ UNCHANGED iter_pubs
    /\ UNCHANGED <<serviceVars, sd_caller, cycles, saveHist, buf_at_exit, signalled,
                   iterHist>>
    /\ NotService

\* ---------------------------------------------------------------------
\* main() and the signal handler
\* ---------------------------------------------------------------------

\* lines 96-177: the device id is persistent, or sys.exit(1)
MainStart ==
    /\ mpc = "start"
    /\ IF Rejects(cfg.id)
       THEN /\ mpc' = "exit_fatal"
            /\ steps' = Append(steps, "identity_rejected")
       ELSE /\ mpc' = "m_connect"
            /\ steps' = Append(steps, "identity")
    /\ UNCHANGED <<serviceVars, sd_caller, cycles, saveHist, runHist, iterHist, iter_pubs>>
    /\ NotService

\* line 182: mqtt_adapter.connect(), up to the start of the thread
MainConnect ==
    /\ ConnectCall("m_connect", "m_connected")
    /\ steps' = IF nthreads' # nthreads THEN Append(steps, "supervision") ELSE steps
    /\ UNCHANGED <<calls_left, iter_pubs>>

\* connect(), lines 214-216: time.sleep(2); return self.is_connected().  The
\* result is not used by main(); a reachable broker has acknowledged by then
MainConnected ==
    /\ mpc = "m_connected"
    /\ BrokerUp => is_connected
    /\ mpc' = IF cfg.listen THEN "m_listen" ELSE "run_init"
    /\ UNCHANGED <<serviceVars, sd_caller, cycles, saveHist, runHist, iterHist, progHist>>
    /\ NotService

\* lines 185-187: mqtt_adapter.start_listening(monitoring_service._handle_admin_command)
MainStartListening ==
    /\ StartListening("m_listen", "m_subscribe", "run_init")
    /\ steps' = IF admin_handler' THEN Append(steps, "register") ELSE steps
    /\ UNCHANGED <<calls_left, iter_pubs>>

MainStartSubscribe ==
    /\ StartSubscribe("m_subscribe", "run_init")
    /\ UNCHANGED <<calls_left, progHist>>

\* lines 194-210: finally: if not monitoring_service._running: shutdown(); sys.exit(0)
MainFinally ==
    /\ mpc = "finally"
    /\ IF ~running
       THEN /\ sd_caller' = "main"
            /\ mpc' = "sd_flush"
       ELSE /\ mpc' = "exit"
            /\ UNCHANGED sd_caller
    /\ UNCHANGED <<serviceVars, cycles, saveHist, runHist, iterHist, progHist>>
    /\ NotService

\* faulty variant: a handler that leaves the iteration and goes to shutdown()
SignalPreempts ==
    /\ mpc \notin {"start", "exit", "exit_fatal", "drv", "drv_join", "drv_send",
                   "drv_subscribe"}
    /\ running' = FALSE
    /\ signalled' = TRUE
    /\ mpc' = "sd_flush"
    /\ sd_caller' = "run"
    /\ UNCHANGED <<buffer, count, storage_init, cycles, saveHist, shutdown_runs,
                   buf_at_exit, iterHist, progHist>>
    /\ NotService

\* shutdown_handler: monitoring_service._running = False, once the handlers
\* are installed (line 176) and until the process exits
Signal ==
    /\ mpc \notin {"start", "exit", "exit_fatal", "drv", "drv_join", "drv_send",
                   "drv_subscribe"}
    /\ running' = FALSE
    /\ signalled' = TRUE
    /\ UNCHANGED <<buffer, count, storage_init, mainVars, saveHist, shutdown_runs,
                   buf_at_exit, iterHist, progHist>>
    /\ NotService

\* ---------------------------------------------------------------------
\* A driver of the adapter alone: any sequence of interface calls
\* ---------------------------------------------------------------------

Spend == calls_left > 0 /\ calls_left' = calls_left - 1 /\ UNCHANGED progHist

DrvConnect == Spend /\ ConnectCall("drv", "drv")
DrvDisconnect == Spend /\ DisconnectSet("drv", "drv_join")
DrvJoin == DisconnectJoin("drv_join", "drv") /\ UNCHANGED <<calls_left, progHist>>
DrvPublish == Spend /\ \E topic \in {"sensor", "info"} :
                           PublishCheck("drv", "drv_send", "drv", topic)
DrvSend == PublishSend("drv_send", "drv") /\ UNCHANGED <<calls_left, progHist>>
DrvStartListening == Spend /\ StartListening("drv", "drv_subscribe", "drv")
DrvStartSubscribe == StartSubscribe("drv_subscribe", "drv") /\ UNCHANGED <<calls_left, progHist>>
DrvStopListening == Spend /\ StopListening("drv", "drv")

\* ---------------------------------------------------------------------
\* Admin commands: _on_message on the network thread and
\* SensorMonitoringService._handle_admin_command on the handler threads
\* ---------------------------------------------------------------------

Topics == {"admin", "other"}
Payloads == {"reboot", " REBOOT ", "foo", "bad_utf8"}

\* msg.payload.decode() raises for bytes that are not UTF-8
Decodes(p) == p # "bad_utf8"

\* payload_str = msg.payload.decode().strip(); command = payload_str.lower()
Command(p) == IF p \in {"reboot", " REBOOT "} THEN "reboot" ELSE p

\* faulty variant: the handler is called from _on_message itself
HandlerContextInline == "network"

\* lines 80-82: threading.Thread(target=self._admin_handler, ...).start()
HandlerContext == "thread"

\* the next invocation: invocations are numbered in the order they start
FreeHandler(h) ==
    /\ hnd[h].pc = "none"
    /\ \A g \in Handlers : g < h => hnd[g].pc # "none"

\* _on_message (set as on_message only if self.admin_topic, line 95): a
\* message on the admin topic with a handler registered starts the handler;
\* anything else, and a payload that does not decode, is logged and dropped
OnMessage(c, topic, p) ==
    /\ NetIdle
    /\ cl[c].loop
    /\ cl[c].conn = "acked"
    /\ msgs < MaxMessages
    /\ msgs' = msgs + 1
    /\ IF admin_topic /\ Decodes(p) /\ topic = "admin" /\ admin_handler
       THEN \E h \in Handlers :
               /\ FreeHandler(h)
               /\ hnd' = [hnd EXCEPT ![h] = [NoHandler EXCEPT !.pc = "start",
                                                !.cmd = Command(p),
                                                !.on = HandlerContext]]
       ELSE UNCHANGED hnd
    /\ UNCHANGED <<adapterVars, serviceVars, mainVars, budgetVars, iterHist,
                   failHist, saveHist, runHist, callHist, progHist>>

\* what a handler thread never touches
NotHandler == UNCHANGED <<serviceVars, mainVars, budgetVars, iterHist, failHist,
                          saveHist, runHist, progHist, connect_calls, msgs>>

HSet(h, p) == [hnd EXCEPT ![h].pc = p]

\* faulty variant: every command is taken for a reboot
IsRebootAny(cmd) == TRUE

\* service.py line 45: if command == "reboot"
IsReboot(cmd) == cmd = "reboot"

\* lines 44-47 and 55-56: reboot goes on to the cleanup, any other command is
\* logged and the handler returns
HStart(h) ==
    /\ hnd[h].pc = "start"
    /\ hnd' = HSet(h, IF IsReboot(hnd[h].cmd) THEN "h_disc" ELSE "done")
    /\ UNCHANGED <<adapterVars, disc_called>>
    /\ NotHandler

\* disconnect(), line 221, on the handler thread
HDiscSet(h) ==
    /\ hnd[h].pc = "h_disc"
    /\ stop_event' = TRUE
    /\ disc_called' = TRUE
    /\ hnd' = [hnd EXCEPT ![h].pc = "h_chk", ![h].did = Append(@, "disconnect")]
    /\ UNCHANGED <<is_connected, retry_delay, elapsed, client, cl, nclients,
                   admin_handler, mqtt_thread, sup, nthreads, cfg>>
    /\ NotHandler

\* line 222: if self._mqtt_thread and self._mqtt_thread.is_alive()
HDiscCheck(h) ==
    /\ hnd[h].pc = "h_chk"
    /\ hnd' = HSet(h, IF ThreadRunning THEN "h_join" ELSE "h_clear")
    /\ UNCHANGED <<adapterVars, disc_called>>
    /\ NotHandler

\* faulty variant: the AttributeError leaves the handler
HDiscJoinUncaught(h) ==
    /\ hnd[h].pc = "h_join"
    /\ hnd' = IF mqtt_thread = 0
              THEN [hnd EXCEPT ![h].pc = "done", ![h].failed = TRUE]
              ELSE [hnd EXCEPT ![h].pc = "h_wait", ![h].th = mqtt_thread]
    /\ UNCHANGED <<adapterVars, disc_called>>
    /\ NotHandler

\* line 223: self._mqtt_thread.join(timeout=10): the attribute is read again;
\* None has no join (AttributeError, caught at service.py line 52)
HDiscJoin(h) ==
    /\ hnd[h].pc = "h_join"
    /\ hnd' = IF mqtt_thread = 0
              THEN [hnd EXCEPT ![h].pc = "h_reboot", ![h].failed = TRUE]
              ELSE [hnd EXCEPT ![h].pc = "h_wait", ![h].th = mqtt_thread]
    /\ UNCHANGED <<adapterVars, disc_called>>
    /\ NotHandler

\* join returns when the thread has ended or after the timeout
HDiscWait(h) ==
    /\ hnd[h].pc = "h_wait"
    /\ \/ ~Alive(hnd[h].th)
       \/ JoinTimesOut(hnd[h].th)
    /\ hnd' = [hnd EXCEPT ![h].pc = "h_alive", ![h].th = 0]
    /\ UNCHANGED <<adapterVars, disc_called>>
    /\ NotHandler

\* line 224: if self._mqtt_thread.is_alive(): the attribute is read again
HDiscAlive(h) ==
    /\ hnd[h].pc = "h_alive"
    /\ hnd' = IF mqtt_thread = 0
              THEN [hnd EXCEPT ![h].pc = "h_reboot", ![h].failed = TRUE]
              ELSE HSet(h, "h_clear")
    /\ UNCHANGED <<adapterVars, disc_called>>
    /\ NotHandler

\* line 226: self._mqtt_thread = None
HDiscClear(h) ==
    /\ hnd[h].pc = "h_clear"
    /\ mqtt_thread' = 0
    /\ hnd' = HSet(h, "h_unreg")
    /\ UNCHANGED <<is_connected, retry_delay, elapsed, client, cl, nclients,
                   admin_handler, stop_event, sup, nthreads, cfg, disc_called>>
    /\ NotHandler

\* service.py lines 50-51: if self.admin_listener: stop_listening()
HStopListening(h) ==
    /\ hnd[h].pc = "h_unreg"
    /\ IF cfg.listen
       THEN /\ cl' = IF admin_topic /\ client # 0 /\ is_connected
                     THEN [cl EXCEPT ![client].sub = FALSE] ELSE cl
            /\ admin_handler' = FALSE
       ELSE UNCHANGED <<cl, admin_handler>>
    /\ hnd' = [hnd EXCEPT ![h].pc = "h_reboot",
                          ![h].did = IF cfg.listen THEN Append(@, "stop_listening")
                                                   ELSE @]
    /\ UNCHANGED <<is_connected, retry_delay, elapsed, client, nclients,
                   mqtt_thread, stop_event, sup, nthreads, cfg, disc_called>>
    /\ NotHandler

\* line 54: self.command_executor.execute_reboot(); OSCommandExecutor catches
\* what os.system raises, and the handler returns
HReboot(h) ==
    /\ hnd[h].pc = "h_reboot"
    /\ hnd' = [hnd EXCEPT ![h].pc = "done", ![h].reboots = @ + 1,
                          ![h].did = Append(@, "execute_reboot")]
    /\ UNCHANGED <<adapterVars, disc_called>>
    /\ NotHandler

\* main.py lines 182-187 for the admin specification: connect() and
\* start_listening(); start_listening is called whatever the configuration
AdmConnect == ConnectCall("adm", "adm_listen") /\ UNCHANGED <<calls_left, progHist>>
AdmStartListening ==
    StartListening("adm_listen", "adm_subscribe", "adm_idle") /\ UNCHANGED <<calls_left, progHist>>
AdmStartSubscribe == StartSubscribe("adm_subscribe", "adm_idle") /\ UNCHANGED <<calls_left, progHist>>

\* ---------------------------------------------------------------------
\* Specifications
\* ---------------------------------------------------------------------

\* what FileDeviceIdentityProvider.get_device_id() returns, on every call of
\* a run (the identifier is cached): a stored or new uuid, a temporary one
\* when the file cannot be used, or an empty one
DeviceIds == {"uuid", "temp-uuid", ""}

Configs == [listen : BOOLEAN, topic : {TRUE}, id : {"uuid"}, broker : {"any"},
            faults : {TRUE}]
MainConfigs == [listen : BOOLEAN, topic : {TRUE}, id : DeviceIds, broker : {"any"},
                faults : {TRUE}]

\* the two end-to-end scenarios: a reachable broker with working sensors and
\* storage, and a broker that is unreachable for the whole run
ScenarioConfigs ==
    [listen : BOOLEAN, topic : {TRUE}, id : {"uuid"}, broker : {"up"}, faults : {FALSE}]
    \cup [listen : BOOLEAN, topic : {TRUE}, id : {"uuid"}, broker : {"down"},
           faults : {TRUE}]

InitCommon ==
    /\ is_connected = FALSE
    /\ retry_delay = InitialRetryDelay
    /\ elapsed = 0
    /\ client = 0
    /\ cl = [c \in Clients |-> NewClient]
    /\ nclients = 0
    /\ admin_handler = FALSE
    /\ mqtt_thread = 0
    /\ stop_event = FALSE
    /\ sup = [t \in Threads |-> NoThread]
    /\ nthreads = 0
    /\ running = FALSE
    /\ buffer = <<>>
    /\ count = 0
    /\ storage_init = FALSE
    /\ sd_caller = "none"
    /\ cycles = 0
    /\ last_pub = NoPub
    /\ connect_calls = 0
    /\ disc_called = FALSE
    /\ last_fail = 0
    /\ fresh_fails = 0
    /\ buffered = {}
    /\ saved = {}
    /\ last_save = "none"
    /\ flush_calls = 0
    /\ shutdown_runs = 0
    /\ buf_at_exit = FALSE
    /\ signalled = FALSE
    /\ steps = <<>>
    /\ iter_pubs = <<>>
    /\ save_log = <<>>
    /\ table = <<>>
    /\ hnd = [h \in Handlers |-> NoHandler]
    /\ msgs = 0

Init ==
    /\ InitCommon
    /\ cfg \in MainConfigs
    /\ mpc = "start"
    /\ attempts_left = SysAttempts
    /\ calls_left = 0

InitScenario ==
    /\ InitCommon
    /\ cfg \in ScenarioConfigs
    /\ mpc = "start"
    /\ attempts_left = ScenarioAttempts
    /\ calls_left = 0

StorageConfigs == [listen : {FALSE}, topic : {TRUE}, id : {"uuid"}, broker : {"any"},
                   faults : BOOLEAN]

InitStorage ==
    /\ InitCommon
    /\ cfg \in StorageConfigs
    /\ mpc = "st"
    /\ attempts_left = 0
    /\ calls_left = StorageCalls

InitAdapter ==
    /\ InitCommon
    /\ cfg \in Configs
    /\ mpc = "drv"
    /\ attempts_left = AdapterAttempts
    /\ calls_left = DriverCalls

InitBackoff ==
    /\ InitCommon
    /\ cfg \in Configs
    /\ mpc = "drv"
    /\ attempts_left = BackoffAttempts
    /\ calls_left = 1

InitRecover ==
    /\ InitCommon
    /\ cfg \in Configs
    /\ mpc = "drv"
    /\ attempts_left = RecoverAttempts
    /\ calls_left = RecoverCalls

\* admin commands enabled, an accepted identity, working sensors and storage
RebootConfigs == [listen : {TRUE}, topic : {TRUE}, id : {"uuid"}, broker : {"any"},
                  faults : {FALSE}]

InitReboot ==
    /\ InitCommon
    /\ cfg \in RebootConfigs
    /\ mpc = "start"
    /\ attempts_left = RebootAttempts
    /\ calls_left = 0

InitAdmin ==
    /\ InitCommon
    /\ cfg \in Configs
    /\ mpc = "adm"
    /\ attempts_left = AdminAttempts
    /\ calls_left = 0

\* the body of the while loop of _connection_loop
SupLoop(t) ==
    \/ SupTick(t) \/ SupAttempt(t) \/ SupCheck(t) \/ SupExcept(t)
    \/ SupBackoffRead(t) \/ SupBackoffWrite(t) \/ SupJitterRead(t)
    \/ SupJitterWrite(t) \/ SupLoopStop(t)

\* leaving the loop and what follows it
SupEnd(t) == SupStop(t) \/ SupFinal(t) \/ SupFinalStop(t) \/ SupFinalFlag(t)

Supervision == \E t \in Threads : SupLoop(t) \/ SupEnd(t)

\* a supervision thread that is never told to stop
SupervisionLoop == \E t \in Threads : SupLoop(t)

Broker ==
    \E c \in Clients : OnConnect(c) \/ OnConnectRefused(c) \/ OnDisconnect(c)

Program ==
    \/ MainStart \/ MainConnect \/ MainConnected \/ MainStartListening \/ MainStartSubscribe
    \/ SvcInitialize \/ SvcSetRunning \/ SvcLoopTest \/ SvcRead \/ SvcCooldown \/ SvcSave
    \/ SvcPubGate \/ SvcPubSensorCheck \/ SvcPubSensorSend
    \/ SvcPubInfoCheck \/ SvcPubInfoSend
    \/ SdFlush \/ SdDisconnect \/ SdJoin \/ SdStopListening \/ SdCleanup
    \/ MainFinally

Driver ==
    \/ DrvConnect \/ DrvDisconnect \/ DrvJoin \/ DrvPublish \/ DrvSend
    \/ DrvStartListening \/ DrvStartSubscribe \/ DrvStopListening

Next == Program \/ Signal \/ Supervision \/ Broker \/ TimePasses

\* the broker becomes reachable and stays so: from here on it accepts and
\* acknowledges every connection and keeps the ones it has
BrokerRecovers ==
    /\ cfg.broker = "any"
    /\ cfg' = [cfg EXCEPT !.broker = "up"]
    /\ UNCHANGED <<is_connected, retry_delay, elapsed, client, cl, nclients,
                   admin_handler, mqtt_thread, stop_event, sup, nthreads,
                   attempts_left, failHist>>
    /\ NotAdapter

\* what the broker of a scenario does: it acknowledges, or the socket closes
ScenarioBroker == \E c \in Clients : OnConnect(c) \/ OnDisconnect(c)

NextStorage == StInitialize \/ StSave

NextScenario == Program \/ Signal \/ Supervision \/ ScenarioBroker \/ TimePasses

NextAdapter == Driver \/ Supervision \/ Broker \/ TimePasses

NextBackoff == DrvConnect \/ SupervisionLoop \/ Broker \/ TimePasses

\* one connect() that is never followed by disconnect(), publishes on the
\* main thread, and a broker that recovers
NextRecover ==
    \/ DrvConnect \/ DrvPublish \/ DrvSend
    \/ SupervisionLoop \/ Broker \/ BrokerRecovers \/ TimePasses

\* main() up to and inside the cycle loop, with no termination signal
Startup ==
    \/ MainStart \/ MainConnect \/ MainConnected \/ MainStartListening \/ MainStartSubscribe
    \/ SvcInitialize \/ SvcSetRunning

Cycle ==
    \/ SvcLoopTest \/ SvcRead \/ SvcSave \/ SvcPubGate
    \/ SvcPubSensorCheck \/ SvcPubSensorSend \/ SvcPubInfoCheck \/ SvcPubInfoSend

\* one "reboot" command arrives on the admin topic
RebootMessage == msgs = 0 /\ \E c \in Clients : OnMessage(c, "admin", "reboot")

Messages == \E c \in Clients, topic \in Topics, p \in Payloads : OnMessage(c, topic, p)

HandlerSteps ==
    \E h \in Handlers :
        \/ HStart(h) \/ HDiscSet(h) \/ HDiscCheck(h) \/ HDiscJoin(h) \/ HDiscWait(h)
        \/ HDiscAlive(h) \/ HDiscClear(h) \/ HStopListening(h) \/ HReboot(h)

NextReboot ==
    Startup \/ Cycle \/ Supervision \/ Broker \/ TimePasses \/ RebootMessage \/ HandlerSteps

AdminSetup == AdmConnect \/ AdmStartListening \/ AdmStartSubscribe

NextAdmin ==
    AdminSetup \/ Supervision \/ Broker \/ TimePasses \/ Messages \/ HandlerSteps

Spec == Init /\ [][Next]_vars
SpecScenario == InitScenario /\ [][NextScenario]_vars
SpecStorage == InitStorage /\ [][NextStorage]_vars

SpecAdapter == InitAdapter /\ [][NextAdapter]_vars

SpecBackoff == InitBackoff /\ [][NextBackoff]_vars

SpecAdmin == InitAdmin /\ [][NextAdmin]_vars

SpecReboot == InitReboot /\ [][NextReboot]_vars

\* the supervision thread is a daemon thread that keeps being scheduled, the
\* clock advances, and a reachable broker answers an open connection
SpecRecover ==
    /\ InitRecover /\ [][NextRecover]_vars
    /\ WF_vars(SupervisionLoop)
    /\ WF_vars(TimePasses)
    /\ WF_vars(BrokerUp /\ \E c \in Clients : OnConnect(c))

\* ---------------------------------------------------------------------
\* Properties
\* ---------------------------------------------------------------------

\* C1: every reading appended to the buffer is, from then on, still in the
\* buffer or was passed to a save call that returned True.
C1_NoReadingLost == \A r \in buffered : r \in Range(buffer) \/ r \in saved

\* the process has exited after a save failed: the readings are still buffered
C1_Witness == mpc = "exit" /\ buffered # {} /\ saved = {} /\ storage_init

\* C2: a save call of a cycle that returns False leaves the buffer and the
\* counter as they were.
C2_FailedSaveKeepsBuffer ==
    [][(mpc = "save" /\ last_save' = "failed") => (buffer' = buffer /\ count' = count)]_vars

\* a full batch whose save has just failed
C2_Witness == last_save = "failed" /\ Len(buffer) >= BatchSize /\ count = Len(buffer)

\* C3: a buffer that is non-empty when the cycle loop exits is passed to the
\* save call exactly once by the time main() ends.
C3_FlushedExactlyOnce == (mpc = "exit" /\ buf_at_exit) => flush_calls = 1

\* C4: the shutdown sequence runs exactly once per process run.
C4_ShutdownExactlyOnce == shutdown_runs <= 1 /\ (mpc = "exit" => shutdown_runs = 1)

\* C5: the retry delay never exceeds the configured maximum.
C5_DelayWithinMaximum == retry_delay <= MaxRetryDelay

\* C6: across consecutive failed attempts with no success in between, the
\* delay after a failure is at least the delay after the previous failure.
C6_DelayNonDecreasing ==
    [][(last_fail # 0 /\ last_fail' # 0) => last_fail' >= last_fail]_vars

\* C7: once the current client's connect was acknowledged with rc 0 the retry
\* delay is the initial value: no backoff increase follows for that attempt.
C7_AckedAttemptKeepsInitialDelay ==
    (client # 0 /\ cl[client].conn = "acked") => retry_delay = InitialRetryDelay

C9_PublishFailsClosed ==
    (last_pub.topic # "none" /\ ~last_pub.seen) =>
        (~last_pub.sent /\ ~last_pub.ret /\ last_pub.rc = "not_connected")

\* publish_info_data was called with a client present but not connected
C9_Witness ==
    last_pub.topic = "info" /\ ~last_pub.seen /\ client # 0 /\ mpc = "drv"

\* C10 as claimed: every failed transport call of _publish leaves the adapter
\* disconnected.
C10_AnyFailureDisconnects ==
    [][(~last_pub.sent /\ last_pub'.sent /\ last_pub'.rc # "ok") => ~is_connected']_vars

\* C10 as amended: a transport call that reports no connection or raises
\* leaves the adapter disconnected; any other failure code leaves the
\* connection state as it was.
C10_ConnectionFailureDisconnects ==
    [][(~last_pub.sent /\ last_pub'.sent) =>
          /\ last_pub'.rc \in {"no_conn", "raise"} => ~is_connected'
          /\ last_pub'.rc = "other_err" => (is_connected' = is_connected /\ ~last_pub'.ret)]_vars

\* the transport reported no connection to a publish that passed the check
C10_Witness == last_pub.sent /\ last_pub.rc = "no_conn" /\ ~is_connected

\* C11: is_connected() is True only if the current client's last connection
\* event is a successful acknowledgment; the states between client.disconnect()
\* and the clearing of the flag at the end of _connection_loop are left out.
C11_ConnectedOnlyAfterAck ==
    (is_connected /\ \A t \in Threads : sup[t].pc # "final_flag") =>
        (client # 0 /\ cl[client].conn = "acked")

\* C12 as claimed: every change of _is_connected and _current_retry_delay is a
\* step of a supervision thread.
C12_SupervisionIsOnlyWriter ==
    [][(is_connected' # is_connected \/ retry_delay' # retry_delay) => sup' # sup]_vars

\* C12 as amended: _is_connected is changed by a supervision thread, by a
\* broker callback or by a _publish call whose transport call reported no
\* connection or raised; _current_retry_delay is changed by a supervision
\* thread or by the connect callback; no other step changes either.
C12_WritersOfConnectionState ==
    [][/\ is_connected' # is_connected =>
             \/ sup' # sup
             \/ \E c \in Clients : cl'[c].conn # cl[c].conn
             \/ /\ ~last_pub.sent /\ last_pub'.sent
                /\ last_pub'.rc \in {"no_conn", "raise"}
                /\ ~is_connected'
       /\ retry_delay' # retry_delay =>
             \/ sup' # sup
             \/ \E c \in Clients : cl[c].conn = "open" /\ cl'[c].conn = "acked"]_vars

\* a _publish call on the cycle thread cleared the flag
C12_Witness ==
    /\ last_pub.sent /\ last_pub.rc = "raise" /\ ~is_connected
    /\ client # 0 /\ cl[client].conn = "acked"

\* C13: every _publish call, on either topic and whatever the transport did,
\* ends with a boolean returned and no exception passed to the caller; True is
\* returned only for rc == MQTT_ERR_SUCCESS.
C13_PublishNeverRaises ==
    last_pub.topic # "none" =>
        /\ ~last_pub.raised
        /\ last_pub.ret \in BOOLEAN
        /\ last_pub.ret => (last_pub.sent /\ last_pub.rc = "ok")

\* the transport raised inside publish_sensor_data and False came back
C13_Witness ==
    /\ last_pub.topic = "sensor" /\ last_pub.sent /\ last_pub.rc = "raise"
    /\ ~last_pub.ret /\ mpc = "drv"

\* C14: once disconnect() has returned and no supervision thread is alive,
\* the adapter is Disconnected, and it stays so as long as connect() is not
\* called again (connect() sets _mqtt_thread).
C14_DisconnectedAfterDisconnect ==
    (disc_called /\ mpc = "drv" /\ mqtt_thread = 0 /\ AliveThreads = {}) => ~is_connected

\* disconnect() returned after the thread tore down a client it had connected
C14_Witness ==
    /\ disc_called /\ mpc = "drv" /\ mqtt_thread = 0 /\ AliveThreads = {}
    /\ nthreads = 1 /\ client # 0 /\ cl[client].conn = "closed" /\ ~is_connected

\* C15: every connect acknowledgment with rc 0 that arrives while a handler
\* is registered and the admin topic is configured issues a subscribe call on
\* the acknowledged client.
C15_SubscribeOnEveryConnect ==
    [][\A c \in Clients :
          (cl[c].conn = "open" /\ cl'[c].conn = "acked" /\ admin_topic /\ admin_handler)
              => cl'[c].sub]_vars

\* the second client was acknowledged and the subscription was issued on it
C15_Witness ==
    /\ client = 2 /\ cl[2].conn = "acked" /\ cl[2].sub
    /\ cl[1].conn = "closed" /\ admin_handler

Finished(h) == hnd[h].pc = "done"
Running(h) == hnd[h].pc \notin {"none", "done"}

\* C16: a handler invocation with "reboot" calls execute_reboot exactly once
\* by the time it returns; an invocation with any other command never calls it;
\* no invocation passes an exception to its caller.
C16_RebootExactlyOnce ==
    \A h \in Handlers :
        /\ ~hnd[h].raised
        /\ hnd[h].reboots <= 1
        /\ hnd[h].cmd # "reboot" => hnd[h].reboots = 0
        /\ (Finished(h) /\ hnd[h].cmd = "reboot") => hnd[h].reboots = 1

\* one invocation with "reboot" and one with "foo" have both returned
C16_Witness ==
    \E h, g \in Handlers :
        /\ Finished(h) /\ hnd[h].cmd = "reboot" /\ hnd[h].reboots = 1
        /\ Finished(g) /\ hnd[g].cmd = "foo" /\ hnd[g].reboots = 0

\* C17: with listen_for_admin off no handler is ever registered, no
\* subscription is ever issued and no message starts a handler, so
\* execute_reboot is never reached.
C17_ListeningDisabled ==
    ~cfg.listen =>
        /\ ~admin_handler
        /\ \A c \in Clients : ~cl[c].sub
        /\ \A h \in Handlers : hnd[h] = NoHandler

\* listening is off, start_listening has returned, messages have arrived
C17_Witness ==
    /\ ~cfg.listen /\ mpc = "adm_idle" /\ msgs = MaxMessages
    /\ client # 0 /\ cl[client].conn = "acked"

\* C18: while a handler invocation has not returned, the network thread still
\* takes the next disconnect notification and the next message, and a
\* supervision thread still sees the stop event at its tick.
C18_CallbacksNotBlocked ==
    (\E h \in Handlers : Running(h)) =>
        /\ \A c \in Clients :
              (cl[c].loop /\ cl[c].conn = "acked") =>
                  /\ ENABLED OnDisconnect(c)
                  /\ msgs < MaxMessages => ENABLED OnMessage(c, "other", "foo")
        /\ \A t \in Threads :
              (sup[t].pc = "loop" /\ stop_event) => ENABLED SupStop(t)

\* the first invocation waits in join() while a later message has started
\* the second
C18_Witness == hnd[1].pc = "h_wait" /\ hnd[2].pc = "start"

\* C19: when two concurrent "reboot" invocations have both returned, neither
\* has failed inside disconnect().
C19_ConcurrentRebootsSafe ==
    (\A h \in Handlers : Finished(h) /\ hnd[h].cmd = "reboot") =>
        \A h \in Handlers : ~hnd[h].failed

\* positions of the main thread inside an iteration of the cycle loop, and
\* inside the loop
IterPcs == {"read", "cooldown", "save", "pub_gate", "pubS_check", "pubS_send",
            "pubI_check", "pubI_send"}
LoopPcs == IterPcs \cup {"loop_test"}

\* C20: a signal delivered while the cycle loop runs only clears _running:
\* the main thread stays where it is and the iteration runs on to the loop
\* test; with _running cleared no iteration starts, and the step after the
\* loop test is shutdown().
C20_SignalBetweenIterations ==
    [][/\ (mpc \in LoopPcs /\ running /\ ~running') =>
              (mpc' = mpc /\ buffer' = buffer /\ count' = count /\ last_pub' = last_pub)
       /\ (mpc \in IterPcs /\ mpc' # mpc) => mpc' \in LoopPcs
       /\ (mpc \in LoopPcs /\ ~running) => cycles' = cycles
       /\ (mpc = "loop_test" /\ ~running /\ mpc' # mpc) =>
              (mpc' = "sd_flush" /\ sd_caller' = "run")]_vars

\* the signal came during the second iteration, which is still publishing
C20_Witness ==
    /\ signalled /\ ~running /\ mpc = "pubI_send" /\ cycles = MaxCycles
    /\ shutdown_runs = 0

\* the steps of the run of shutdown() in progress, or of the last one
ShutdownStart ==
    IF \E i \in DOMAIN steps : steps[i] = "shutdown"
    THEN CHOOSE i \in DOMAIN steps :
             /\ steps[i] = "shutdown"
             /\ \A j \in DOMAIN steps : steps[j] = "shutdown" => j <= i
    ELSE 0
ShutdownSteps ==
    IF ShutdownStart = 0 THEN <<>> ELSE SubSeq(steps, ShutdownStart + 1, Len(steps))

\* the order of shutdown(): lines 173-175, 178-181, 184-188, 191-194
ShutdownOrder == <<"flush", "disconnect", "unregister", "release">>
ShutdownPosition(x) == CHOOSE i \in DOMAIN ShutdownOrder : ShutdownOrder[i] = x

\* C21: a run of shutdown() comes after the last cycle and does its steps in
\* this order: flush the pending buffer (when it holds readings), disconnect
\* the publisher, unregister the admin handler (when listening is enabled),
\* release the sensor source; a completed run has done each step that applies.
C21_ShutdownOrder ==
    /\ \A i, j \in DOMAIN steps : (i < j /\ steps[i] = "shutdown") => steps[j] # "cycle"
    /\ \A i \in DOMAIN ShutdownSteps : ShutdownSteps[i] \in Range(ShutdownOrder)
    /\ \A i, j \in DOMAIN ShutdownSteps :
           i < j => ShutdownPosition(ShutdownSteps[i]) < ShutdownPosition(ShutdownSteps[j])
    /\ (ShutdownSteps # <<>> /\ ShutdownSteps[Len(ShutdownSteps)] = "release") =>
           /\ "disconnect" \in Range(ShutdownSteps)
           /\ cfg.listen => "unregister" \in Range(ShutdownSteps)
           /\ buffer # <<>> => "flush" \in Range(ShutdownSteps)

\* the first run of shutdown() has returned and did all four steps
C21_Witness ==
    /\ shutdown_runs = 1 /\ mpc = "finally"
    /\ ShutdownSteps = ShutdownOrder
    /\ "cycle" \in Range(steps)

\* the startup steps in the order of the specification's startup sequence
StartupOrder ==
    <<"identity", "sensor_init", "storage_init", "supervision", "register", "cycle">>
StartupPosition(x) == CHOOSE i \in DOMAIN StartupOrder : StartupOrder[i] = x

\* C22: at startup the device identity is resolved, then the sensor source is
\* initialized, then the durable buffer, then the supervision task is started,
\* then the admin handler is registered (if enabled), and only then the first
\* cycle runs.
C22_StartupOrder ==
    \A i, j \in DOMAIN steps :
        (i < j /\ steps[i] \in Range(StartupOrder) /\ steps[j] \in Range(StartupOrder)) =>
            StartupPosition(steps[i]) <= StartupPosition(steps[j])

\* C23: when the identity provider returns an empty or a temporary identifier
\* the cycle loop is never entered: no reading is taken, no save and no
\* publish is made by the service.
C23_RejectedIdentityNeverCycles ==
    cfg.id \in {"", "temp-uuid"} =>
        /\ mpc \in {"start", "exit_fatal"}
        /\ cycles = 0 /\ "cycle" \notin Range(steps)
        /\ buffered = {} /\ buffer = <<>>
        /\ flush_calls = 0 /\ last_save = "none" /\ saved = {}
        /\ last_pub = NoPub

\* main() has exited on a temporary identifier
C23_Witness ==
    /\ cfg.id = "temp-uuid" /\ mpc = "exit_fatal"
    /\ steps = <<"identity_rejected">>

\* C24: an exception raised inside an iteration never ends the cycle loop:
\* the step after the failing read is the cooldown, buffer and counter as
\* they were; after the cooldown comes the loop test, and from the loop test
\* the next iteration starts unless _running has been cleared.
C24_ExceptionKeepsLoop ==
    [][/\ (mpc = "read" /\ mpc' # mpc) => mpc' \in {"save", "cooldown"}
       /\ (mpc' = "cooldown" /\ mpc' # mpc) =>
              (mpc = "read" /\ buffer' = buffer /\ count' = count /\ running' = running)
       /\ (mpc = "cooldown" /\ mpc' # mpc) =>
              (mpc' = "loop_test" /\ buffer' = buffer /\ count' = count)
       /\ (mpc = "loop_test" /\ running /\ mpc' # mpc) => mpc' = "read"]_vars

\* the first read raised, the second iteration has appended its reading
C24_Witness ==
    /\ running /\ cycles = 2 /\ mpc = "save"
    /\ buffered = {2} /\ buffer = <<2>>

\* initialize() has run and storage.initialize() returned False
StorageInitFailed == "storage_init" \in Range(steps) /\ ~storage_init

\* C25: when the storage failed to initialize the cycle loop still runs; no
\* save call succeeds, so nothing is stored and every reading appended so far
\* is still in the buffer, in read order, with the counter at its length.
C25_FailedStorageKeepsBuffering ==
    StorageInitFailed =>
        /\ saved = {} /\ last_save # "ok"
        /\ Range(buffer) = buffered /\ count = Len(buffer)
        /\ \A i, j \in DOMAIN buffer : i < j => buffer[i] < buffer[j]
        /\ (mpc = "pub_gate" /\ count >= BatchSize) => last_save = "failed"

\* the second cycle: the save call failed, both readings are buffered and
\* the system info has just been published
C25_Witness ==
    /\ StorageInitFailed /\ cycles = 2 /\ buffer = <<1, 2>>
    /\ last_save = "failed"
    /\ last_pub.topic = "info" /\ last_pub.ret

\* the save calls made by the cycle loop (line 128), in order
IsCycleSave(e) == e.by = "cycle"
CycleSaves == SelectSeq(save_log, IsCycleSave)

\* the k-th full batch of a run in which every read succeeds
Batch(k) == [i \in 1..BatchSize |-> (k - 1) * BatchSize + i]

\* C26: with a reachable broker and working sensors and storage, the save is
\* first called in the cycle that appends the BatchSize-th reading, with
\* exactly these readings in read order, and leaves buffer and counter empty;
\* a completed cycle has published one sensor and one info message, the run
\* has made one save call per full batch, and the adapter is connected
\* during the whole loop.
C26_BatchSavedOncePublishedEach ==
    BrokerUp =>
        /\ mpc \in LoopPcs => is_connected
        /\ \A k \in DOMAIN CycleSaves : CycleSaves[k].batch = Batch(k)
        /\ CycleSaves = <<>> =>
               (count = Len(buffer) /\ buffer = [i \in 1..count |-> i]
                /\ (count < BatchSize \/ (count = BatchSize /\ mpc = "save")))
        /\ (mpc = "pub_gate" /\ last_save # "none") =>
               (last_save = "ok" /\ buffer = <<>> /\ count = 0
                /\ Len(CycleSaves) * BatchSize = cycles)
        /\ (mpc = "loop_test" /\ cycles >= 1) =>
               (iter_pubs = <<"sensor", "info">> /\ Len(CycleSaves) = cycles \div BatchSize)

\* two cycles are complete: one save call with both readings, and the
\* second cycle has published both messages
C26_Witness ==
    /\ BrokerUp /\ running /\ mpc = "loop_test" /\ cycles = 2
    /\ Len(CycleSaves) = 1 /\ CycleSaves[1].batch = <<1, 2>>
    /\ saved = {1, 2} /\ buffer = <<>> /\ count = 0
    /\ iter_pubs = <<"sensor", "info">> /\ is_connected

\* the readings passed to save_sensor_readings so far, by a cycle or by shutdown()
PassedToSave == UNION {Range(save_log[i].batch) : i \in DOMAIN save_log}

\* C27: with the broker unreachable for the whole run the adapter is never
\* connected, the service never hands a message to the transport, and once
\* shutdown() has completed every reading the cycles appended has been
\* passed to a save call.
C27_UnreachableBrokerLosesNothing ==
    BrokerDown =>
        /\ ~is_connected
        /\ last_pub = NoPub /\ iter_pubs = <<>>
        /\ \A c \in Clients : cl[c].conn # "acked"
        /\ shutdown_runs >= 1 => buffered \subseteq PassedToSave

\* one cycle ran while an attempt failed; shutdown() has flushed its reading
C27_Witness ==
    /\ BrokerDown /\ shutdown_runs = 1 /\ last_fail > 0
    /\ buffered = {1}
    /\ Len(save_log) = 1 /\ save_log[1].by = "shutdown" /\ save_log[1].batch = <<1>>

\* C28 as stated: from a fresh adapter and with every jitter zero, the retry
\* delay after the third failed attempt in a row is
\* min(initial * factor^2, maximum).
C28_ThirdDelayFactorSquared ==
    fresh_fails = 3 =>
        last_fail = Min(InitialRetryDelay * RetryBackoffFactor * RetryBackoffFactor,
                        MaxRetryDelay)

\* C28, amended: from a fresh adapter and with every jitter zero, the retry
\* delay after the third failed attempt in a row is
\* min(initial * factor^3, maximum): every failure multiplies, the first too.
C28_ThirdDelayFactorCubed ==
    fresh_fails = 3 =>
        last_fail = Min(InitialRetryDelay * RetryBackoffFactor * RetryBackoffFactor
                            * RetryBackoffFactor, MaxRetryDelay)

\* the third failure in a row, no jitter, no acknowledgement so far
C28_Witness ==
    /\ fresh_fails = 3 /\ retry_delay = last_fail
    /\ \E t \in Threads : sup[t].pc = "loopstop"

\* the rows of the table with timestamp ts
RowsAt(ts) == {i \in DOMAIN table : table[i].ts = ts}

\* C29: no timestamp ever has two rows, and every reading of a batch whose
\* save call returned True has exactly one row, however often it was saved;
\* a save call whose readings all have a stored timestamp leaves the table
\* as it was and returns True (when the database itself works).
C29_SaveIsIdempotent ==
    /\ [](/\ \A ts \in 1..MaxStamps : Cardinality(RowsAt(ts)) <= 1
          /\ \A k \in DOMAIN save_log :
                 save_log[k].ok =>
                     \A i \in DOMAIN save_log[k].batch :
                         Cardinality(RowsAt(save_log[k].batch[i].ts)) = 1)
    /\ [][save_log' # save_log =>
             LET call == save_log'[Len(save_log')]
             IN  (\A i \in DOMAIN call.batch : call.batch[i].ts \in Stored(table)) =>
                     /\ table' = table
                     /\ (NoFaults /\ storage_init) => call.ok]_vars

\* the same reading was saved in two calls, both returned True, one row
C29_Witness ==
    /\ Len(save_log) = 2 /\ save_log[1].ok /\ save_log[2].ok
    /\ save_log[1].batch = save_log[2].batch /\ Len(save_log[1].batch) = 1
    /\ Len(table) = 1

\* the step in which the final block of a supervision thread stops client c
TornDown(c) ==
    /\ cl[c].conn \in {"open", "acked"} /\ cl'[c].conn = "closed"
    /\ \E t \in Threads : sup[t].pc = "final_stop" /\ sup'[t].pc = "final_flag"

\* C30: when the final block of the supervision thread tears down an
\* acknowledged connection, the retained offline status has been published
\* on that connection before.
C30_OfflineBeforeTeardown ==
    [][\A c \in Clients :
           (TornDown(c) /\ cl[c].conn = "acked") => cl[c].offline = "sent"]_vars

\* the step in which supervision thread t starts a connection attempt
AttemptStarts(t) == sup[t].pc = "loop" /\ sup'[t].pc = "attempt"

\* C31: the supervision thread starts a connection attempt only when the
\* adapter is not connected and at least the retry delay in force has elapsed
\* since the previous attempt began; the attempt restarts the clock.
C31_AttemptsSpacedByDelay ==
    [][\A t \in Threads :
           AttemptStarts(t) =>
               (~is_connected /\ elapsed >= retry_delay /\ elapsed' = 0)]_vars

\* a second attempt has just begun, after a failure raised the delay
C31_Witness ==
    /\ \E t \in Threads : sup[t].pc = "attempt"
    /\ last_fail > InitialRetryDelay /\ retry_delay = last_fail
    /\ elapsed = 0 /\ nclients = 1

\* C32: a handler that has processed "reboot" called disconnect, then
\* stop_listening, then the command executor; when the cleanup raised, what
\* was left of it is skipped and the command executor is still invoked.
C32_CleanupThenReboot ==
    \A h \in Handlers :
        /\ \A i \in DOMAIN hnd[h].did :
               hnd[h].did[i] = "execute_reboot" =>
                   /\ i = Len(hnd[h].did)
                   /\ hnd[h].did[1] = "disconnect"
                   /\ ~hnd[h].failed => /\ i = 3
                                        /\ hnd[h].did[2] = "stop_listening"
        /\ (Finished(h) /\ hnd[h].cmd = "reboot") =>
               /\ hnd[h].did # <<>>
               /\ hnd[h].did[Len(hnd[h].did)] = "execute_reboot"

\* one handler ran the whole cleanup, another one's disconnect raised; both
\* invoked the command executor
C32_Witness ==
    \E h, g \in Handlers :
        /\ Finished(h) /\ ~hnd[h].failed
        /\ hnd[h].did = <<"disconnect", "stop_listening", "execute_reboot">>
        /\ Finished(g) /\ hnd[g].failed
        /\ hnd[g].did = <<"disconnect", "execute_reboot">>

\* the step in which supervision thread t ends
ThreadEnds(t) == sup[t].pc # "dead" /\ sup'[t].pc = "dead"

\* C33: once the stop event is set the supervision thread starts no new
\* connection attempt; at the top of its loop its only step is to leave the
\* loop; and it ends with the connected flag cleared.
C33_StopEndsSupervision ==
    /\ [](\A t \in Threads :
             (stop_event /\ sup[t].pc = "loop") =>
                 (ENABLED SupStop(t) /\ ~ENABLED SupTick(t)))
    /\ [][\A t \in Threads :
             /\ (stop_event /\ AttemptStarts(t)) => FALSE
             /\ ThreadEnds(t) => ~is_connected']_vars

\* the stop event was set while an attempt was in progress on a second
\* client; the thread finished the attempt, made no other and has ended
C33_Witness ==
    /\ stop_event /\ ~is_connected /\ disc_called
    /\ nthreads = 1 /\ sup[1].pc = "dead"
    /\ nclients = 2 /\ cl[2].offline # "none"

\* C34: once the broker is reachable and stays so, with the supervision
\* thread running and not told to stop, the adapter eventually is connected,
\* from every state, those in which a publish failure cleared the flag
\* included.
C34_EventuallyConnected ==
    [](( /\ BrokerUp /\ ThreadRunning /\ ~stop_event
         /\ (is_connected \/ attempts_left > 0) ) => <>is_connected)

\* a publish on the first client failed and cleared the flag; with the broker
\* reachable the second client is connected
C34_Witness ==
    /\ BrokerUp /\ ThreadRunning /\ is_connected
    /\ last_pub.sent /\ last_pub.seen /\ MarksDisconnected(last_pub.rc)
    /\ nclients = 2 /\ cl[2].conn = "acked" /\ cl[2].loop

\* C35: in every state of the service the measurement counter equals the
\* number of readings in the buffer.
C35_CounterIsBufferLength == count = Len(buffer)

\* readings were appended up to the save interval, the save failed and kept
\* the buffer and the counter
C35_Witness ==
    /\ last_save = "failed" /\ mpc = "pub_gate"
    /\ count = BatchSize /\ Len(buffer) = BatchSize

\* the connection of the current client is established and its loop runs
Established == client # 0 /\ cl[client].conn = "acked" /\ cl[client].loop

\* C36: once start_listening has returned with the handler registered and
\* the acknowledgment callback has run on the current client, a
\* subscription to the admin topic has been issued on that client, whichever
\* of the two came first and however their steps interleaved.
C36_SubscribedEitherWay ==
    (mpc = "adm_idle" /\ admin_handler /\ is_connected /\ Established)
        => cl[client].sub

\* connect(), start_listening and the acknowledgment of the first client
\* have all completed, no message has arrived yet
C36_Witness ==
    /\ mpc = "adm_idle" /\ admin_handler /\ is_connected /\ Established
    /\ cl[client].sub /\ msgs = 0 /\ nclients = 1

\* C37: whenever the adapter is connected the network loop of the current
\* client is running: the supervision thread does not stop the loop of a
\* client whose acknowledgment set the flag.
C37_ConnectedMeansLoopRunning ==
    is_connected => (client # 0 /\ cl[client].loop)

\* C38: whatever connect() and disconnect() calls are made, at most one
\* supervision thread is alive at any time.
C38_OneSupervisionThread == Cardinality(AliveThreads) <= 1

\* C39: a termination signal delivered before run() sets its running flag
\* still stops the service: once a signal has been handled the cycle loop is
\* not running with the flag set, waiting for a further signal.
C39_EarlySignalStopsLoop ==
    (signalled /\ mpc \in LoopPcs) => ~running

\* the handler has processed "reboot" and the command executor has returned
RebootReturned == \E h \in Handlers : Finished(h) /\ hnd[h].reboots = 1

\* C40: after the handler has processed "reboot" and the command executor
\* has returned, the adapter stays disconnected and nothing is published.
C40_RebootLeavesDisconnected ==
    /\ [](RebootReturned => ~is_connected)
    /\ [][RebootReturned => ~(last_pub'.sent /\ ~last_pub.sent)]_vars

====
